---- MODULE Spec2Model ----
(***************************************************************************)
(* pg2kinesis: the replication-payload preprocessors and message           *)
(* formatters of pg2kinesis/formatter.py, and the Consume controller that  *)
(* drives them, publishes the messages and sends replication feedback.     *)
(*                                                                         *)
(* Text is modelled as a sequence of atoms: an atom is a run of characters *)
(* that no operation of the program cuts in two ("public", ".", "users",   *)
(* ":").  s[:-1] drops the last atom, which is a single character wherever *)
(* the program applies it; concatenation is \o.                            *)
(***************************************************************************)
EXTENDS Integers, Sequences, FiniteSets, TLC

(***************************************************************************)
(* Bounds of the model.                                                    *)
(***************************************************************************)
\* number of raw replication events delivered to the controller
MaxEvents == 3

(***************************************************************************)
(* Text helpers.                                                           *)
(***************************************************************************)
\* s[:-1]
DropLast(s) == IF Len(s) = 0 THEN s ELSE SubSeq(s, 1, Len(s) - 1)

\* the word characters of the regular-expression class \w, as atoms
IsWordAtom(a) == a \notin {".", ":", ",", " ", "'", "[", "]", "-", ""}

\* Python values whose type matters to the program: text and JSON integers.
\* An integer is carried by its decimal literal.
PyStr(s) == [t |-> "str", s |-> s]
PyInt(s) == [t |-> "int", s |-> s]

\* str(v) and '{}'.format(v): the text of a value
str(v) == v.s

\* s.lower()
LowerAtom(a) ==
    CASE a = "INSERT" -> "insert"
      [] a = "UPDATE" -> "update"
      [] a = "DELETE" -> "delete"
      [] a = "Insert" -> "insert"
      [] OTHER -> a

lower(s) == [i \in DOMAIN s |-> LowerAtom(s[i])]

\* re.compile(pat).search(s) for a literal pattern: pat occurs in s
LiteralSearch(pat, s) ==
    \E i \in 1..(Len(s) - Len(pat) + 1) : SubSeq(s, i, i + Len(pat) - 1) = pat

(***************************************************************************)
(* Configuration of one run (the values Preprocessor.__init__ receives).   *)
(***************************************************************************)
Users  == <<"public", ".", "users">>
Orders == <<"public", ".", "orders">>
Audit  == <<"audit", ".", "users">>

\* primary_key_map: table -> (col_name, col_type)
primary_key_map == [t \in {Users} |-> [col_name |-> <<"id">>, col_type |-> <<"int4">>]]

\* table_pat: None, or a literal pattern
NoTablePat == [given |-> FALSE, pat |-> <<>>]
TablePat(p) == [given |-> TRUE, pat |-> p]

(***************************************************************************)
(* formatter.py: the tuples and the error messages.                        *)
(***************************************************************************)
Change(xid, table, operation, pkey) ==
    [xid |-> xid, table |-> table, operation |-> operation, pkey |-> pkey]

FullChange(xid, change) == [xid |-> xid, change |-> change]

Message(change, fmt_msg) == [change |-> change, fmt_msg |-> fmt_msg]

MISSING_TABLE_ERR == "Unable to locate table"
MISSING_PK_ERR == "Unable to locate primary key for table"

\* The outcome of one call: it raised err, or it returned ret (a list, or
\* None when none is TRUE); cur_xact is the preprocessor's field afterwards.
Returned(ret, xact) ==
    [raised |-> FALSE, err |-> "", none |-> FALSE, ret |-> ret, cur_xact |-> xact]

ReturnedNone(xact) ==
    [raised |-> FALSE, err |-> "", none |-> TRUE, ret |-> <<>>, cur_xact |-> xact]

\* a _log_and_raise that logs and returns: the caller falls through to its
\* return of the empty list
log_and_swallow(msg, xact) ==
    [raised |-> FALSE, err |-> "", none |-> FALSE, ret |-> <<>>, cur_xact |-> xact]

\* Preprocessor._log_and_raise, and the exceptions Python raises by itself
log_and_raise(msg, xact) ==
    [raised |-> TRUE, err |-> msg, none |-> FALSE, ret |-> <<>>, cur_xact |-> xact]

(***************************************************************************)
(* Preprocessor.__init__: the table pattern and the primary-key patterns.  *)
(***************************************************************************)
\* self.table_re.search(name); the default pattern is [\w_\.]+
table_re_search(table_pat, name) ==
    IF table_pat.given
    THEN LiteralSearch(table_pat.pat, name)
    ELSE \E i \in DOMAIN name : IsWordAtom(name[i]) \/ name[i] = "."

\* self._primary_key_patterns: keyed by the table name with ":" appended
primary_key_patterns ==
    [k \in {Append(t, ":") : t \in DOMAIN primary_key_map} |->
        primary_key_map[DropLast(k)]]

\* the group ([\w\-]+) of COL_TYPE_VALUE_TEMPLATE_PAT: the longest run of
\* word atoms and "-" at the start of the value
RECURSIVE WordPrefix(_)
WordPrefix(v) ==
    IF v = <<>> \/ ~(IsWordAtom(Head(v)) \/ Head(v) = "-")
    THEN <<>>
    ELSE <<Head(v)>> \o WordPrefix(Tail(v))

\* a pattern that leaves the column type out
ColumnMatches_any_type(pk, col) ==
    /\ Len(col.name) >= Len(pk.col_name)
    /\ SubSeq(col.name, Len(col.name) - Len(pk.col_name) + 1, Len(col.name)) = pk.col_name
    /\ WordPrefix(col.value) # <<>>

\* Where COL_TYPE_VALUE_TEMPLATE_PAT, formatted with (col_name, col_type),
\* matches the column word name[type]:'value': search is unanchored, so the
\* name need only end with col_name.
ColumnMatches(pk, col) ==
    /\ Len(col.name) >= Len(pk.col_name)
    /\ SubSeq(col.name, Len(col.name) - Len(pk.col_name) + 1, Len(col.name)) = pk.col_name
    /\ col.type = pk.col_type
    /\ WordPrefix(col.value) # <<>>

\* a search that reports the last matching column word instead of the first
COL_TYPE_VALUE_TEMPLATE_PAT_last(pk, cols) ==
    IF \E i \in DOMAIN cols : ColumnMatches(pk, cols[i])
    THEN CHOOSE i \in DOMAIN cols :
            /\ ColumnMatches(pk, cols[i])
            /\ \A j \in (i + 1)..Len(cols) : ~ColumnMatches(pk, cols[j])
    ELSE 0

\* pattern.search(rec[3]): the index of the first matching column word, 0 for
\* no match
COL_TYPE_VALUE_TEMPLATE_PAT(pk, cols) ==
    IF \E i \in DOMAIN cols : ColumnMatches(pk, cols[i])
    THEN CHOOSE i \in DOMAIN cols :
            /\ ColumnMatches(pk, cols[i])
            /\ \A j \in 1..(i - 1) : ~ColumnMatches(pk, cols[j])
    ELSE 0

(***************************************************************************)
(* TestDecodingPreprocessor.preprocess.  A payload is the sequence of its  *)
(* space-separated words; the words of the column dump are records         *)
(* [name, type, value].                                                    *)
(***************************************************************************)
\* change.split(' ', 3): at most three cuts, the rest stays together
split3(words) ==
    IF Len(words) <= 3
    THEN words
    ELSE <<words[1], words[2], words[3], SubSeq(words, 4, Len(words))>>

TestDecodingPreprocessor_preprocess(table_pat, xact, change) ==
    LET rec == split3(change) IN
    IF rec[1] = <<"BEGIN">>
    THEN IF Len(rec) < 2
         THEN log_and_raise("IndexError", xact)
         ELSE Returned(<<>>, PyStr(rec[2]))
    ELSE IF rec[1] \in {<<"COMMIT">>}
    THEN Returned(<<>>, xact)
    ELSE IF rec[1] = <<"table">>
    THEN IF Len(rec) < 2
         THEN log_and_raise("IndexError", xact)
         ELSE
         LET table_name == DropLast(rec[2]) IN
         IF table_re_search(table_pat, table_name)
         THEN IF rec[2] \notin DOMAIN primary_key_patterns
              THEN log_and_raise(MISSING_TABLE_ERR, xact)
              ELSE IF Len(rec) < 4
              THEN log_and_raise("IndexError", xact)
              ELSE
              LET mat == COL_TYPE_VALUE_TEMPLATE_PAT(primary_key_patterns[rec[2]], rec[4]) IN
              IF mat # 0
              THEN LET pkey == WordPrefix(rec[4][mat].value) IN
                   Returned(<<Change(xact, table_name, DropLast(rec[3]), pkey)>>, xact)
              ELSE log_and_raise(MISSING_PK_ERR, xact)
         ELSE Returned(<<>>, xact)
    ELSE log_and_raise("Unknown change", xact)

(***************************************************************************)
(* Wal2JsonPreprocessor.preprocess.  A payload is the JSON object that     *)
(* json.loads returns: keys is the set of its keys ({} for "{}"), xid and  *)
(* change are the values of those two keys.                                *)
(***************************************************************************)
\* list.index(x): the first index of x (1-based), 0 when x is absent
index(list, x) ==
    IF \E i \in DOMAIN list : list[i] = x
    THEN CHOOSE i \in DOMAIN list : list[i] = x /\ \A j \in 1..(i - 1) : list[j] # x
    ELSE 0

\* '{}.{}'.format(schema, table_name)
full_table_of(change) == change.schema \o <<".">> \o change.table

\* a round that looks the key up before it looks at self.full_change
Wal2JsonEntry_lookup_first(table_pat, full_change, xact, change) ==
    LET table_name == change.table
        full_table == full_table_of(change)
    IN
    IF ~table_re_search(table_pat, table_name)
    THEN [kind |-> "skip", err |-> "", item |-> <<>>]
    ELSE IF full_table \notin DOMAIN primary_key_map
    THEN [kind |-> "raised", err |-> MISSING_TABLE_ERR, item |-> <<>>]
    ELSE IF full_change
    THEN [kind |-> "append", err |-> "", item |-> <<FullChange(xact, change)>>]
    ELSE
    LET value_index == index(change.columnnames, primary_key_map[full_table].col_name) IN
    IF value_index = 0
    THEN [kind |-> "raised", err |-> "ValueError", item |-> <<>>]
    ELSE [kind |-> "append", err |-> "",
          item |-> <<Change(xact, full_table, lower(change.kind),
                            str(change.columnvalues[value_index]))>>]

\* One round of the loop over change_dictionary['change']: the outcome of the
\* entry, as [skip], [raised, err] or [append, item]
Wal2JsonEntry(table_pat, full_change, xact, change) ==
    LET table_name == change.table
        full_table == full_table_of(change)
    IN
    IF ~table_re_search(table_pat, table_name)
    THEN [kind |-> "skip", err |-> "", item |-> <<>>]
    ELSE IF full_change
    THEN [kind |-> "append", err |-> "", item |-> <<FullChange(xact, change)>>]
    ELSE IF full_table \notin DOMAIN primary_key_map
    THEN [kind |-> "raised", err |-> MISSING_TABLE_ERR, item |-> <<>>]
    ELSE
    LET primary_key == primary_key_map[full_table]
        value_index == index(change.columnnames, primary_key.col_name)
    IN
    IF value_index = 0
    THEN [kind |-> "raised", err |-> "ValueError", item |-> <<>>]
    ELSE IF value_index > Len(change.columnvalues)
    THEN [kind |-> "raised", err |-> "IndexError", item |-> <<>>]
    ELSE [kind |-> "append", err |-> "",
          item |-> <<Change(xact, full_table, lower(change.kind),
                            str(change.columnvalues[value_index]))>>]

\* a loop that puts each new record in front of the list
RECURSIVE Wal2JsonLoop_prepending(_, _, _, _, _)
Wal2JsonLoop_prepending(table_pat, full_change, xact, rest, changes) ==
    IF rest = <<>>
    THEN Returned(changes, xact)
    ELSE LET r == Wal2JsonEntry(table_pat, full_change, xact, Head(rest)) IN
         IF r.kind = "raised"
         THEN log_and_raise(r.err, xact)
         ELSE Wal2JsonLoop_prepending(table_pat, full_change, xact, Tail(rest),
                                      r.item \o changes)

\* The loop: changes is the list built so far, rest the entries still to do
RECURSIVE Wal2JsonLoop(_, _, _, _, _)
Wal2JsonLoop(table_pat, full_change, xact, rest, changes) ==
    IF rest = <<>>
    THEN Returned(changes, xact)
    ELSE LET r == Wal2JsonEntry(table_pat, full_change, xact, Head(rest)) IN
         IF r.kind = "raised"
         THEN log_and_raise(r.err, xact)
         ELSE Wal2JsonLoop(table_pat, full_change, xact, Tail(rest), changes \o r.item)

\* a preprocess that keeps the old cur_xact when the loop raises
Wal2JsonPreprocessor_preprocess_restoring(table_pat, full_change, xact, change) ==
    IF change.keys = {}
    THEN ReturnedNone(xact)
    ELSE LET r == Wal2JsonLoop(table_pat, full_change, change.xid, change.change, <<>>) IN
         IF r.raised THEN log_and_raise(r.err, xact) ELSE r

Wal2JsonPreprocessor_preprocess(table_pat, full_change, xact, change) ==
    LET change_dictionary == change IN
    IF change_dictionary.keys = {}
    THEN ReturnedNone(xact)
    ELSE IF "xid" \notin change_dictionary.keys
    THEN log_and_raise("KeyError", xact)
    ELSE IF "change" \notin change_dictionary.keys
    THEN log_and_raise("KeyError", change_dictionary.xid)
    ELSE Wal2JsonLoop(table_pat, full_change, change_dictionary.xid,
                      change_dictionary.change, <<>>)

\* Preprocessor.for_output_plugin: the preprocessor of the named plugin
preprocess(output_plugin, table_pat, full_change, xact, change) ==
    IF output_plugin = "test_decoding"
    THEN TestDecodingPreprocessor_preprocess(table_pat, xact, change)
    ELSE Wal2JsonPreprocessor_preprocess(table_pat, full_change, xact, change)

(***************************************************************************)
(* The formatters.                                                         *)
(***************************************************************************)
VERSION == 0
TYPE == <<"CDC">>

\* the decimal text of VERSION
VersionText == IF VERSION = 0 THEN <<"0">> ELSE <<"1">>

\* ','.join(fields)
RECURSIVE CommaJoin(_)
CommaJoin(fields) ==
    IF Len(fields) = 0 THEN <<>>
    ELSE IF Len(fields) = 1 THEN fields[1]
    ELSE fields[1] \o <<",">> \o CommaJoin(Tail(fields))

\* the fields of a tuple, as '{}'.format prints them
IsFullChange(change) == "change" \in DOMAIN change

\* a compact format that writes the table after the operation
CSVFormatter_operation_first(change) ==
    IF IsFullChange(change)
    THEN [raised |-> TRUE, err |-> "IndexError", msg |-> <<>>]
    ELSE [raised |-> FALSE, err |-> "",
          msg |-> <<Message(change,
                       CommaJoin(<<VersionText, TYPE, str(change.xid), change.operation,
                                   change.table, change.pkey>>))>>]

\* CSVFormatter.produce_formatted_message: six placeholders, filled by
\* VERSION, TYPE and the fields of the tuple; a FullChange has only two
CSVFormatter_produce_formatted_message(change) ==
    IF IsFullChange(change)
    THEN [raised |-> TRUE, err |-> "IndexError", msg |-> <<>>]
    ELSE [raised |-> FALSE, err |-> "",
          msg |-> <<Message(change,
                       CommaJoin(<<VersionText, TYPE, str(change.xid), change.table,
                                   change.operation, change.pkey>>))>>]

\* json.dumps(change._asdict()): the field names and values, in field order
json_dumps(change) ==
    IF IsFullChange(change)
    THEN <<"{", "xid", ":">> \o str(change.xid) \o <<",", "change", ":", "{">>
         \o <<"kind", ":">> \o change.change.kind \o <<",", "table", ":">>
         \o change.change.table \o <<"}", "}">>
    ELSE <<"{", "xid", ":">> \o str(change.xid) \o <<",", "table", ":">> \o change.table
         \o <<",", "operation", ":">> \o change.operation \o <<",", "pkey", ":">>
         \o change.pkey \o <<"}">>

CSVPayloadFormatter_produce_formatted_message(change) ==
    [raised |-> FALSE, err |-> "",
     msg |-> <<Message(change, CommaJoin(<<VersionText, TYPE, json_dumps(change)>>))>>]

\* get_formatter(name)
produce_formatted_message(name, change) ==
    IF name = "CSV"
    THEN CSVFormatter_produce_formatted_message(change)
    ELSE CSVPayloadFormatter_produce_formatted_message(change)

\* Formatter.__call__: the list comprehension over preprocessed_changes;
\* iterating None raises TypeError
RECURSIVE FormatAll(_, _, _)
FormatAll(name, rest, done) ==
    IF rest = <<>>
    THEN [raised |-> FALSE, err |-> "", msgs |-> done]
    ELSE LET r == produce_formatted_message(name, Head(rest)) IN
         IF r.raised
         THEN [raised |-> TRUE, err |-> r.err, msgs |-> <<>>]
         ELSE FormatAll(name, Tail(rest), done \o r.msg)

Formatter_call(name, pp) ==
    IF pp.none
    THEN [raised |-> TRUE, err |-> "TypeError", msgs |-> <<>>]
    ELSE FormatAll(name, pp.ret, <<>>)

(***************************************************************************)
(* The Consume controller (pg2kinesis/__main__.py), one cycle per raw      *)
(* replication event.                                                      *)
(***************************************************************************)
\* the length of the send window, in time units
WINDOW == 10

\* None, and a message, as the argument of writer.put_message
None == <<>>
Arg(fmt_msg) == <<fmt_msg>>

\* the operation kind of a message's change
operation_of(change) ==
    IF IsFullChange(change) THEN change.change.kind ELSE change.operation

\* Consume.should_send_to_kinesis
should_send_to_kinesis(filter_operations, fmt_msg) ==
    operation_of(fmt_msg.change) \in filter_operations

\* a controller that hands every message to the writer
put_message_arg_unfiltered(filter_operations, fmt_msg) == Arg(fmt_msg)

\* what the writer is given for one message: the message when the filter
\* passes it, None in its place when it does not
put_message_arg(filter_operations, fmt_msg) ==
    IF should_send_to_kinesis(filter_operations, fmt_msg)
    THEN Arg(fmt_msg)
    ELSE None

\* a controller that makes no call for a message the filter rejects
RECURSIVE put_message_args_skipping(_, _)
put_message_args_skipping(filter_operations, fmt_msgs) ==
    IF fmt_msgs = <<>>
    THEN <<>>
    ELSE (IF should_send_to_kinesis(filter_operations, Head(fmt_msgs))
          THEN <<Arg(Head(fmt_msgs))>>
          ELSE <<>>) \o put_message_args_skipping(filter_operations, Tail(fmt_msgs))

\* a controller that walks the messages last to first
put_message_args_reversed(filter_operations, fmt_msgs) ==
    [i \in DOMAIN fmt_msgs |->
        put_message_arg(filter_operations, fmt_msgs[Len(fmt_msgs) + 1 - i])]

\* the arguments of the cycle's put_message calls, in call order
put_message_args(filter_operations, fmt_msgs) ==
    [i \in DOMAIN fmt_msgs |-> put_message_arg(filter_operations, fmt_msgs[i])]

\* a cycle that flushes only when every put_message call returned true
should_flush_all(did_put) ==
    did_put # <<>> /\ \A i \in DOMAIN did_put : did_put[i]

\* a cycle that flushes whatever the put_message calls returned
should_flush_always(did_put) == TRUE

\* whether the cycle sends feedback: did_put is the list of what its
\* put_message calls returned
should_flush(did_put) == \E i \in DOMAIN did_put : did_put[i]

\* a cycle that sends feedback after every put_message call that returned true
send_feedback_each(did_put, data_start) ==
    [k \in 1..Cardinality({i \in DOMAIN did_put : did_put[i]}) |-> data_start]

\* the calls of change.cursor.send_feedback of one cycle, as the list of their
\* flush_lsn
send_feedback(did_put, data_start) ==
    IF should_flush(did_put)
    THEN <<data_start>>
    ELSE <<>>

\* a window that is reset at every reading that is a multiple of WINDOW
window_after_every_multiple(w, int_time, data_size) ==
    IF int_time % WINDOW = 0
    THEN [cur_window |-> int_time, msg_window_count |-> 0, msg_window_size |-> 0]
    ELSE [cur_window |-> w.cur_window,
          msg_window_count |-> w.msg_window_count + 1,
          msg_window_size |-> w.msg_window_size + data_size]

\* a window of buckets floor(now / WINDOW) * WINDOW, reset before the event
\* is counted
window_after_bucket(w, int_time, data_size) ==
    LET bucket == (int_time \div WINDOW) * WINDOW IN
    IF bucket # w.cur_window
    THEN [cur_window |-> bucket, msg_window_count |-> 1, msg_window_size |-> data_size]
    ELSE [cur_window |-> w.cur_window,
          msg_window_count |-> w.msg_window_count + 1,
          msg_window_size |-> w.msg_window_size + data_size]

\* the send window after a cycle at int(time.time()) = int_time
window_after(w, int_time, data_size) ==
    LET counted == [cur_window |-> w.cur_window,
                    msg_window_count |-> w.msg_window_count + 1,
                    msg_window_size |-> w.msg_window_size + data_size]
    IN
    IF int_time % WINDOW = 0 /\ int_time # counted.cur_window
    THEN [cur_window |-> int_time, msg_window_count |-> 0, msg_window_size |-> 0]
    ELSE counted

\* self.formatter(change.payload): parse, then encode
formatter(cfg, xact, payload) ==
    LET pp == preprocess(cfg.output_plugin, cfg.table_pat, cfg.full_change, xact, payload) IN
    IF pp.raised
    THEN [raised |-> TRUE, err |-> pp.err, msgs |-> <<>>, cur_xact |-> pp.cur_xact]
    ELSE LET f == Formatter_call(cfg.formatter, pp) IN
         [raised |-> f.raised, err |-> f.err, msgs |-> f.msgs, cur_xact |-> pp.cur_xact]

\* a controller whose feedback waits for a window that was not just reset
Consume_call_gated(cfg, xact, w, change, int_time, did_put) ==
    LET f == formatter(cfg, xact, change.payload)
        after == window_after(w, int_time, change.data_size)
    IN
    IF f.raised
    THEN [raised |-> TRUE, err |-> f.err, cur_xact |-> f.cur_xact, window |-> w,
          fmt_msgs |-> <<>>, put_args |-> <<>>, did_put |-> <<>>, feedback |-> <<>>]
    ELSE [raised |-> FALSE, err |-> "", cur_xact |-> f.cur_xact,
          window |-> after,
          fmt_msgs |-> f.msgs,
          put_args |-> put_message_args(cfg.filter_operations, f.msgs),
          did_put |-> did_put,
          feedback |-> IF after.msg_window_count = 0
                       THEN <<>>
                       ELSE send_feedback(did_put, change.data_start)]

\* Consume.__call__ on one raw event change = [data_start, data_size, payload]
\* with the window w and the preprocessor's cur_xact = xact; did_put is what
\* the cycle's put_message calls return, in call order.
Consume_call(cfg, xact, w, change, int_time, did_put) ==
    LET f == formatter(cfg, xact, change.payload) IN
    IF f.raised
    THEN [raised |-> TRUE, err |-> f.err, cur_xact |-> f.cur_xact, window |-> w,
          fmt_msgs |-> <<>>, put_args |-> <<>>, did_put |-> <<>>, feedback |-> <<>>]
    ELSE [raised |-> FALSE, err |-> "", cur_xact |-> f.cur_xact,
          window |-> window_after(w, int_time, change.data_size),
          fmt_msgs |-> f.msgs,
          put_args |-> put_message_args(cfg.filter_operations, f.msgs),
          did_put |-> did_put,
          feedback |-> send_feedback(did_put, change.data_start)]

(***************************************************************************)
(* The inputs of the model: raw replication events [payload, data_size],   *)
(* data_size being the byte length of the payload's text.                  *)
(***************************************************************************)
Col(name, type, value) == [name |-> name, type |-> type, value |-> value]

TableWord(t) == Append(t, ":")

Raw(payload, data_size) == [payload |-> payload, data_size |-> data_size]

\* BEGIN 7
BeginEvent == Raw(<< <<"BEGIN">>, <<"7">> >>, 7)

\* COMMIT 7
CommitEvent == Raw(<< <<"COMMIT">>, <<"7">> >>, 8)

\* table public.users: INSERT: id[int4]:1 name[text]:'ann'
UsersInsertEvent ==
    Raw(<< <<"table">>, TableWord(Users), <<"INSERT", ":">>,
           Col(<<"id">>, <<"int4">>, <<"1">>), Col(<<"name">>, <<"text">>, <<"ann">>) >>, 55)

\* table public.users: DELETE: id[int4]:2
UsersDeleteEvent ==
    Raw(<< <<"table">>, TableWord(Users), <<"DELETE", ":">>,
           Col(<<"id">>, <<"int4">>, <<"2">>) >>, 38)

\* table public.users: UPDATE: name[text]:'bob'   (no primary-key column)
UsersNoKeyEvent ==
    Raw(<< <<"table">>, TableWord(Users), <<"UPDATE", ":">>,
           Col(<<"name">>, <<"text">>, <<"bob">>) >>, 44)

\* table public.orders: INSERT: id[int4]:5   (a table without a registered key)
OrdersInsertEvent ==
    Raw(<< <<"table">>, TableWord(Orders), <<"INSERT", ":">>,
           Col(<<"id">>, <<"int4">>, <<"5">>) >>, 39)

\* garbage
GarbageEvent == Raw(<< <<"garbage">> >>, 7)

TestDecodingEvents ==
    { BeginEvent, CommitEvent, UsersInsertEvent, UsersDeleteEvent,
      UsersNoKeyEvent, OrdersInsertEvent, GarbageEvent }

Entry(kind, schema, table, names, values) ==
    [kind |-> kind, schema |-> schema, table |-> table, columnnames |-> names,
     columntypes |-> [i \in DOMAIN names |-> <<"int4">>], columnvalues |-> values]

UsersRow(kind, id) == Entry(kind, <<"public">>, <<"users">>, << <<"id">> >>, <<PyInt(id)>>)
OrdersRow(kind, id) == Entry(kind, <<"public">>, <<"orders">>, << <<"id">> >>, <<PyInt(id)>>)

Json(xid, change) == [keys |-> {"xid", "change"}, xid |-> PyInt(xid), change |-> change]
EmptyJson == [keys |-> {}, xid |-> PyInt(<<>>), change |-> <<>>]

\* {}
EmptyObjectEvent == Raw(EmptyJson, 2)

\* {"xid": 7, "change": []}
NoChangeEvent == Raw(Json(<<"7">>, <<>>), 24)

\* two inserts into public.users
TwoInsertsEvent ==
    Raw(Json(<<"7">>, <<UsersRow(<<"insert">>, <<"1">>),
                        UsersRow(<<"insert">>, <<"2">>)>>), 250)

\* a delete from and an insert into public.users
DeleteInsertEvent ==
    Raw(Json(<<"8">>, <<UsersRow(<<"delete">>, <<"1">>),
                        UsersRow(<<"insert">>, <<"2">>)>>), 251)

\* an insert into public.users and one into public.orders, which has no
\* registered key
UnregisteredEvent ==
    Raw(Json(<<"9">>, <<UsersRow(<<"insert">>, <<"1">>),
                        OrdersRow(<<"insert">>, <<"5">>)>>), 252)

Wal2JsonEvents ==
    { EmptyObjectEvent, NoChangeEvent, TwoInsertsEvent, DeleteInsertEvent,
      UnregisteredEvent }

RawEvents(output_plugin) ==
    IF output_plugin = "test_decoding" THEN TestDecodingEvents ELSE Wal2JsonEvents

\* the operation allow-sets
AllOperations == { <<"insert">>, <<"update">>, <<"delete">>, <<"truncate">> }
OnlyDelete == { <<"delete">> }
UpperOperations == { <<"INSERT">>, <<"UPDATE">> }

Config(plugin, full, pat, name, ops) ==
    [output_plugin |-> plugin, full_change |-> full, table_pat |-> pat,
     formatter |-> name, filter_operations |-> ops]

Configurations ==
    { Config("wal2json", FALSE, NoTablePat, "CSV", AllOperations),
      Config("wal2json", FALSE, NoTablePat, "CSV", OnlyDelete),
      Config("test_decoding", FALSE, NoTablePat, "CSV", UpperOperations) }

\* the readings of int(time.time())
Times == {10, 11, 20}

(***************************************************************************)
(* The state.                                                              *)
(***************************************************************************)
VARIABLES
    config,             \* the configuration of the run
    cur_xact,           \* Preprocessor.cur_xact
    cur_window,         \* Consume.cur_window
    msg_window_count,   \* Consume.msg_window_count
    msg_window_size,    \* Consume.msg_window_size
    lsn,                \* the position of the next raw event
    events,             \* the number of raw events delivered
    pc,                 \* "running", or "failed" once an error left the controller
    cycle,              \* the last cycle: its event, its calls and what they returned
    flushed,            \* every flush_lsn sent to the cursor, in order
    unconfirmed,        \* the positions of the events with a passing message whose put returned false
    accepted,           \* the positions of the events with a put that returned true
    since,              \* the events counted since cur_window last changed
    twin,               \* a second run on the same events, with a clock of its own
    parser              \* the last call of a preprocessor or formatter used on its own

vars == <<config, cur_xact, cur_window, msg_window_count, msg_window_size,
          lsn, events, pc, cycle, flushed, unconfirmed, accepted, since, twin, parser>>

Window(c, n, z) == [cur_window |-> c, msg_window_count |-> n, msg_window_size |-> z]

window == Window(cur_window, msg_window_count, msg_window_size)

NoCycle ==
    [state |-> "none", payload |-> <<>>, data_start |-> 0, data_size |-> 0, int_time |-> 0,
     before |-> Window(0, 0, 0), xact_before |-> PyStr(<<>>),
     call |-> [raised |-> FALSE, err |-> "", cur_xact |-> PyStr(<<>>),
               window |-> Window(0, 0, 0), fmt_msgs |-> <<>>, put_args |-> <<>>,
               did_put |-> <<>>, feedback |-> <<>>]]

\* the second run: its window, its clock, its calls of the last cycle and
\* every flush_lsn it sent
Twin(w, int_time, call, sent) ==
    [window |-> w, int_time |-> int_time, put_args |-> call.put_args,
     feedback |-> call.feedback, flushed |-> sent]

NoTwin == Twin(Window(0, 0, 0), 0, NoCycle.call, <<>>)

\* no call yet
NoParse ==
    [state |-> "none", calls |-> 0, payload |-> <<>>, xact_before |-> PyStr(<<>>),
     last_begin |-> PyStr(<<>>), result |-> Returned(<<>>, PyStr(<<>>)),
     record |-> <<>>, message |-> <<>>]

InitRun ==
    /\ parser = NoParse
    /\ config \in Configurations
    /\ cur_xact = PyStr(<<>>)
    /\ cur_window = 0
    /\ msg_window_count = 0
    /\ msg_window_size = 0
    /\ lsn = 10
    /\ events = 0
    /\ pc = "running"
    /\ cycle = NoCycle
    /\ flushed = <<>>
    /\ unconfirmed = {}
    /\ accepted = {}
    /\ since = [count |-> 0, size |-> 0]

Init ==
    /\ InitRun
    /\ twin = NoTwin

\* the position of the cycle's event if one of its put calls returned true
Accepted(c) ==
    IF \E i \in DOMAIN c.call.did_put : c.call.did_put[i]
    THEN {c.data_start}
    ELSE {}

\* the position of the cycle's event if one of its passing messages was not
\* accepted
Unconfirmed(c) ==
    IF \E i \in DOMAIN c.call.put_args : c.call.put_args[i] # None /\ ~c.call.did_put[i]
    THEN {c.data_start}
    ELSE {}

\* One cycle: the replication driver calls consume(change) for the raw event
\* e at position lsn, the clock reads int_time and the put_message calls
\* return did_put.
Consume(e, int_time, did_put) ==
    LET change == [data_start |-> lsn, data_size |-> e.data_size, payload |-> e.payload] IN
    /\ pc = "running"
    /\ events < MaxEvents
    /\ int_time >= cycle.int_time
    /\ cycle' = [state |-> "done", payload |-> e.payload, data_start |-> lsn, data_size |-> e.data_size,
                 int_time |-> int_time, before |-> window, xact_before |-> cur_xact,
                 call |-> Consume_call(config, cur_xact, window, change, int_time, did_put)]
    /\ ~cycle'.call.raised
    /\ events' = events + 1
    /\ lsn' = lsn + e.data_size
    /\ cur_xact' = cycle'.call.cur_xact
    /\ cur_window' = cycle'.call.window.cur_window
    /\ msg_window_count' = cycle'.call.window.msg_window_count
    /\ msg_window_size' = cycle'.call.window.msg_window_size
    /\ flushed' = flushed \o cycle'.call.feedback
    /\ unconfirmed' = unconfirmed \cup Unconfirmed(cycle')
    /\ accepted' = accepted \cup Accepted(cycle')
    /\ since' = IF cur_window' # cur_window
                THEN [count |-> 0, size |-> 0]
                ELSE [count |-> since.count + 1, size |-> since.size + e.data_size]
    /\ UNCHANGED <<config, pc>>

\* A cycle that an error leaves: the exception propagates to the driver,
\* which stops consuming.
ConsumeRaises(e, int_time) ==
    LET change == [data_start |-> lsn, data_size |-> e.data_size, payload |-> e.payload] IN
    /\ pc = "running"
    /\ events < MaxEvents
    /\ int_time >= cycle.int_time
    /\ cycle' = [state |-> "raised", payload |-> e.payload, data_start |-> lsn, data_size |-> e.data_size,
                 int_time |-> int_time, before |-> window, xact_before |-> cur_xact,
                 call |-> Consume_call(config, cur_xact, window, change, int_time, <<>>)]
    /\ cycle'.call.raised
    /\ events' = events + 1
    /\ lsn' = lsn + e.data_size
    /\ cur_xact' = cycle'.call.cur_xact
    /\ cur_window' = cycle'.call.window.cur_window
    /\ msg_window_count' = cycle'.call.window.msg_window_count
    /\ msg_window_size' = cycle'.call.window.msg_window_size
    /\ flushed' = flushed \o cycle'.call.feedback
    /\ pc' = "failed"
    /\ UNCHANGED <<config, unconfirmed, accepted, since>>

\* the number of put_message calls the cycle on payload makes
Calls(payload) == Len(formatter(config, cur_xact, payload).msgs)

\* The second run's cycle on the same event, with the same parse results,
\* filter and put results, at its own clock reading.
TwinConsume(e, twin_time, did_put) ==
    LET change == [data_start |-> lsn, data_size |-> e.data_size, payload |-> e.payload]
        call == Consume_call(config, cur_xact, twin.window, change, twin_time, did_put)
    IN
    /\ twin_time >= twin.int_time
    /\ twin' = Twin(call.window, twin_time, call, twin.flushed \o call.feedback)

Next ==
    \/ \E e \in RawEvents(config.output_plugin), int_time \in Times :
          \E did_put \in [1..Calls(e.payload) -> BOOLEAN] :
              Consume(e, int_time, did_put) /\ UNCHANGED <<twin, parser>>
    \/ \E e \in RawEvents(config.output_plugin), int_time \in Times :
          ConsumeRaises(e, int_time) /\ UNCHANGED <<twin, parser>>

Spec == Init /\ [][Next]_vars

\* Two runs side by side: the same configuration, events and put results,
\* different clocks and different window counters to start with.
TwinWindows == { Window(10, 2, 300) }

TwinConfigurations ==
    { Config("wal2json", FALSE, NoTablePat, "CSV", OnlyDelete),
      Config("test_decoding", FALSE, NoTablePat, "CSV", UpperOperations) }

InitTwin ==
    /\ InitRun
    /\ config \in TwinConfigurations
    /\ \E w \in TwinWindows : twin = Twin(w, 0, NoCycle.call, <<>>)

NextTwin ==
    \/ \E e \in RawEvents(config.output_plugin), int_time \in Times, twin_time \in Times :
          \E did_put \in [1..Calls(e.payload) -> BOOLEAN] :
              /\ Consume(e, int_time, did_put)
              /\ TwinConsume(e, twin_time, did_put)
              /\ UNCHANGED parser
    \/ \E e \in RawEvents(config.output_plugin), int_time \in Times, twin_time \in Times :
          /\ ConsumeRaises(e, int_time)
          /\ TwinConsume(e, twin_time, <<>>)
          /\ UNCHANGED parser

SpecTwin == InitTwin /\ [][NextTwin]_vars

(***************************************************************************)
(* The preprocessors and the formatter on their own: one preprocessor      *)
(* object is given any sequence of payloads, and the formatter any record. *)
(***************************************************************************)
\* the calls made on the preprocessor and the formatter
MaxCalls == 3

\* BEGIN 8
Begin8Payload == << <<"BEGIN">>, <<"8">> >>

\* table audit.users: INSERT: id[int4]:3   (no registered key; the name holds "users")
AuditInsertPayload ==
    << <<"table">>, TableWord(Audit), <<"INSERT", ":">>, Col(<<"id">>, <<"int4">>, <<"3">>) >>

\* table public.users: UPDATE: user_id[int4]:9 id[int4]:1
DecoyPayload ==
    << <<"table">>, TableWord(Users), <<"UPDATE", ":">>,
       Col(<<"user_", "id">>, <<"int4">>, <<"9">>), Col(<<"id">>, <<"int4">>, <<"1">>) >>

\* table public.users: UPDATE: id[text]:'7'   (the key column, of another type)
WrongTypePayload ==
    << <<"table">>, TableWord(Users), <<"UPDATE", ":">>, Col(<<"id">>, <<"text">>, <<"7">>) >>

LinePayloads ==
    {e.payload : e \in TestDecodingEvents}
        \cup {Begin8Payload, AuditInsertPayload, DecoyPayload, WrongTypePayload}

AuditRow(kind, id) == Entry(kind, <<"audit">>, <<"users">>, << <<"id">> >>, <<PyInt(id)>>)

\* a row whose key is not the first column, with an upper-case kind
WideRow(kind, id) ==
    Entry(kind, <<"public">>, <<"users">>, << <<"name">>, <<"id">> >>,
          <<PyStr(<<"ann">>), PyInt(id)>>)

\* a row of public.users that carries no "id" column
NoKeyRow(kind) ==
    Entry(kind, <<"public">>, <<"users">>, << <<"name">> >>, <<PyStr(<<"ann">>)>>)

\* an insert into public.users, then a row of it without the key column
NoKeyPayload == Json(<<"3">>, <<UsersRow(<<"insert">>, <<"1">>), NoKeyRow(<<"update">>)>>)

\* an insert into audit.users
AuditPayload == Json(<<"5">>, <<AuditRow(<<"insert">>, <<"3">>)>>)

\* an insert into audit.users, then one into public.users
AuditUsersPayload ==
    Json(<<"6">>, <<AuditRow(<<"insert">>, <<"3">>), UsersRow(<<"insert">>, <<"4">>)>>)

\* three rows of public.users
ThreeRowsPayload ==
    Json(<<"4">>, <<UsersRow(<<"insert">>, <<"2">>), WideRow(<<"UPDATE">>, <<"1">>),
                    UsersRow(<<"delete">>, <<"2">>)>>)

JsonPayloads ==
    {e.payload : e \in Wal2JsonEvents}
        \cup {AuditPayload, AuditUsersPayload, ThreeRowsPayload, NoKeyPayload}

ParseConfig(plugin, full, pat) == Config(plugin, full, pat, "CSV", AllOperations)

ParseConfigurations ==
    { ParseConfig("test_decoding", FALSE, NoTablePat),
      ParseConfig("test_decoding", FALSE, TablePat(<<"users">>)),
      ParseConfig("test_decoding", FALSE, TablePat(<<"orders">>)),
      ParseConfig("wal2json", FALSE, NoTablePat),
      ParseConfig("wal2json", TRUE, NoTablePat),
      ParseConfig("wal2json", FALSE, TablePat(Users)),
      ParseConfig("wal2json", TRUE, TablePat(<<"audit">>)) }

\* the records given to the formatter
NoXid == PyStr(<<>>)

ChangeRecords ==
    { Change(xid, table, operation, pkey) :
        xid \in {NoXid, PyStr(<<"7">>), PyInt(<<"7">>)},
        table \in {Users},
        operation \in {<<"INSERT">>, <<"delete">>},
        pkey \in {<<"1">>, <<"a", "-", "b">>, <<"a", ",", "b">>} }

InitParse ==
    /\ parser = NoParse
    /\ config \in ParseConfigurations
    /\ cur_xact = PyStr(<<>>)
    /\ cur_window = 0
    /\ msg_window_count = 0
    /\ msg_window_size = 0
    /\ lsn = 10
    /\ events = 0
    /\ pc = "running"
    /\ cycle = NoCycle
    /\ flushed = <<>>
    /\ unconfirmed = {}
    /\ accepted = {}
    /\ since = [count |-> 0, size |-> 0]
    /\ twin = NoTwin

controller == <<config, cur_window, msg_window_count, msg_window_size, lsn, events,
                pc, cycle, flushed, unconfirmed, accepted, since, twin>>

\* the transaction id of the BEGIN payloads seen so far
LastBegin(payload) ==
    IF payload[1] = <<"BEGIN">> /\ Len(payload) >= 2
    THEN PyStr(payload[2])
    ELSE parser.last_begin

\* preprocessor.preprocess(payload), the preprocessor being a
\* TestDecodingPreprocessor
ParseLine(payload) ==
    /\ config.output_plugin = "test_decoding"
    /\ parser.calls < MaxCalls
    /\ parser' = [state |-> "parsed", calls |-> parser.calls + 1, payload |-> payload,
                  xact_before |-> cur_xact, last_begin |-> LastBegin(payload),
                  result |-> TestDecodingPreprocessor_preprocess(config.table_pat,
                                                                 cur_xact, payload),
                  record |-> <<>>, message |-> <<>>]
    /\ cur_xact' = parser'.result.cur_xact
    /\ UNCHANGED controller

\* preprocessor.preprocess(payload), the preprocessor being a
\* Wal2JsonPreprocessor
ParseJson(payload) ==
    /\ config.output_plugin = "wal2json"
    /\ parser.calls < MaxCalls
    /\ parser' = [state |-> "parsed", calls |-> parser.calls + 1, payload |-> payload,
                  xact_before |-> cur_xact, last_begin |-> parser.last_begin,
                  result |-> Wal2JsonPreprocessor_preprocess(config.table_pat,
                                                             config.full_change,
                                                             cur_xact, payload),
                  record |-> <<>>, message |-> <<>>]
    /\ cur_xact' = parser'.result.cur_xact
    /\ UNCHANGED controller

\* CSVFormatter().produce_formatted_message(change)
Encode(change) ==
    /\ parser.calls < MaxCalls
    /\ parser' = [state |-> "encoded", calls |-> parser.calls + 1, payload |-> <<>>,
                  xact_before |-> cur_xact, last_begin |-> parser.last_begin,
                  result |-> Returned(<<>>, cur_xact),
                  record |-> change,
                  message |-> CSVFormatter_produce_formatted_message(change).msg]
    /\ UNCHANGED cur_xact
    /\ UNCHANGED controller

NextParse ==
    \/ \E payload \in LinePayloads : ParseLine(payload)
    \/ \E payload \in JsonPayloads : ParseJson(payload)
    \/ \E change \in ChangeRecords : Encode(change)

SpecParse == InitParse /\ [][NextParse]_vars

(***************************************************************************)
(* Properties of the Consume controller.                                   *)
(***************************************************************************)
Call == cycle.call

\* the message's operation is in the configured allow-set
InAllowSet(fmt_msg) == operation_of(fmt_msg.change) \in config.filter_operations

\* how often position p was sent to the cursor
TimesFlushed(p) == Cardinality({k \in DOMAIN flushed : flushed[k] = p})

SomePutTrue == \E i \in DOMAIN Call.did_put : Call.did_put[i]

\* C1: in every consume cycle, feedback with flush_lsn = the event's position
\* is sent if and only if at least one put_message call of the cycle returned
\* true, whatever the number of messages, the filter and the other results.
C1_AckIffSomePutTrue ==
    cycle.state = "done" =>
        /\ Len(Call.did_put) = Len(Call.fmt_msgs)
        /\ (Call.feedback # <<>>) <=> SomePutTrue
        /\ (TimesFlushed(cycle.data_start) > 0) <=> SomePutTrue
        /\ \A k \in DOMAIN Call.feedback : Call.feedback[k] = cycle.data_start

\* a cycle of two messages, one rejected by the filter and one put returning
\* false, that still sent feedback
C1_Witness ==
    /\ cycle.state = "done"
    /\ Len(Call.fmt_msgs) = 2
    /\ \E i \in DOMAIN Call.put_args : Call.put_args[i] = None
    /\ \E i \in DOMAIN Call.did_put : ~Call.did_put[i]
    /\ SomePutTrue
    /\ Call.feedback = <<cycle.data_start>>

\* C2: within one cycle the controller sends feedback at most once, and when
\* it does, at exactly the event's position; no position is flushed twice.
C2_AckAtMostOnce ==
    cycle.state # "none" =>
        /\ Len(Call.feedback) <= 1
        /\ \A k \in DOMAIN Call.feedback : Call.feedback[k] = cycle.data_start
        /\ TimesFlushed(cycle.data_start) = Len(Call.feedback)
        /\ \A j, k \in DOMAIN flushed : j # k => flushed[j] # flushed[k]

\* two messages that both pass the filter and both get put = true: one feedback
C2_Witness ==
    /\ cycle.state = "done"
    /\ Len(Call.put_args) = 2
    /\ \A i \in DOMAIN Call.put_args : Call.put_args[i] # None /\ Call.did_put[i]
    /\ Call.feedback = <<cycle.data_start>>
    /\ TimesFlushed(cycle.data_start) = 1

\* C3 as stated: the flushed position never decreases, and whenever p has been
\* flushed, every passing message of every event at a position <= p has had
\* its put return true.
C3_NeverPastUnconfirmed ==
    /\ \A j, k \in DOMAIN flushed : j < k => flushed[j] <= flushed[k]
    /\ \A k \in DOMAIN flushed : \A p \in unconfirmed : p > flushed[k]

\* C3 amended: the flushed position never decreases, and a position is flushed
\* only if it is the position of a delivered event one of whose put calls
\* returned true.
C3_MonotoneAndAccepted ==
    /\ \A j, k \in DOMAIN flushed : j < k => flushed[j] < flushed[k]
    /\ \A k \in DOMAIN flushed : flushed[k] \in accepted /\ flushed[k] < lsn

\* an event whose passing messages were not all accepted, overtaken by the
\* feedback of a later event
C3_Witness ==
    /\ Len(flushed) >= 2
    /\ \E p \in unconfirmed : p \notin accepted /\ p < flushed[Len(flushed)]

\* C4 as stated: when the filter rejects every message of the event,
\* put_message is never called during the cycle and no feedback is sent.
C4_NoPutWhenAllRejected ==
    (/\ cycle.state = "done"
     /\ \A i \in DOMAIN Call.fmt_msgs : ~InAllowSet(Call.fmt_msgs[i]))
    => Call.put_args = <<>> /\ Call.feedback = <<>>

\* C4 amended: the writer is given a message only if its operation is in the
\* allow-set; when the filter rejects every message, every put_message call
\* of the cycle has None for argument, and no feedback is sent if these calls
\* all return false.
C4_OnlyAllowedHanded ==
    cycle.state = "done" =>
        /\ \A i \in DOMAIN Call.put_args :
              Call.put_args[i] # None =>
                  \E j \in DOMAIN Call.fmt_msgs :
                      Call.put_args[i] = Arg(Call.fmt_msgs[j]) /\ InAllowSet(Call.fmt_msgs[j])
        /\ (\A i \in DOMAIN Call.fmt_msgs : ~InAllowSet(Call.fmt_msgs[i]))
              => /\ \A i \in DOMAIN Call.put_args : Call.put_args[i] = None
                 /\ ~SomePutTrue => Call.feedback = <<>>

\* filter {delete}, two inserts, the writer returning false: two calls with
\* None, no feedback
C4_Witness ==
    /\ cycle.state = "done"
    /\ config.filter_operations = OnlyDelete
    /\ Len(Call.fmt_msgs) = 2
    /\ \A i \in DOMAIN Call.fmt_msgs : Call.fmt_msgs[i].change.operation = <<"insert">>
    /\ Call.put_args = <<None, None>>
    /\ ~SomePutTrue
    /\ Call.feedback = <<>>

\* C5: for every message the filter rejects, the controller calls put_message
\* with None in place of the message, one call per message in parser order;
\* the rejected message itself is never given to the writer.
C5_NoneForRejected ==
    cycle.state = "done" =>
        /\ Len(Call.put_args) = Len(Call.fmt_msgs)
        /\ \A i \in DOMAIN Call.fmt_msgs :
              ~InAllowSet(Call.fmt_msgs[i]) =>
                  /\ i \in DOMAIN Call.put_args
                  /\ Call.put_args[i] = None
                  /\ \A j \in DOMAIN Call.put_args : Call.put_args[j] # Arg(Call.fmt_msgs[i])

\* a rejected message after an accepted one: the second call has None
C5_Witness ==
    /\ cycle.state = "done"
    /\ Len(Call.fmt_msgs) = 2
    /\ InAllowSet(Call.fmt_msgs[1])
    /\ ~InAllowSet(Call.fmt_msgs[2])
    /\ Call.put_args = <<Arg(Call.fmt_msgs[1]), None>>

IsMessage(arg) == arg # None

\* C6: the messages that pass the filter are given to the writer one per call,
\* each exactly once (also when put returns false), in parser order.
C6_PassingInOrder ==
    cycle.state = "done" =>
        LET passing == SelectSeq(Call.fmt_msgs, InAllowSet)
            handed == SelectSeq(Call.put_args, IsMessage)
        IN
        /\ Len(Call.put_args) = Len(Call.fmt_msgs)
        /\ Len(handed) = Len(passing)
        /\ \A i \in DOMAIN passing : handed[i] = Arg(passing[i])

\* two different passing messages, the first put returning false: two calls,
\* in parser order
C6_Witness ==
    /\ cycle.state = "done"
    /\ Len(Call.fmt_msgs) = 2
    /\ Call.fmt_msgs[1] # Call.fmt_msgs[2]
    /\ Call.put_args = <<Arg(Call.fmt_msgs[1]), Arg(Call.fmt_msgs[2])>>
    /\ ~Call.did_put[1]

\* C7 as stated: after every cycle cur_window = floor(now / 10) * 10, and the
\* counters count the events of the cycles in that bucket since the bucket
\* last changed, the current event included.
C7_BucketWindow ==
    cycle.state = "done" =>
        LET bucket == (cycle.int_time \div WINDOW) * WINDOW
            changed == bucket # cycle.before.cur_window
        IN
        /\ cur_window = bucket
        /\ msg_window_count =
              IF changed THEN 1 ELSE cycle.before.msg_window_count + 1
        /\ msg_window_size =
              IF changed THEN cycle.data_size
              ELSE cycle.before.msg_window_size + cycle.data_size

\* C7 amended: after every cycle cur_window is the clock reading if that is a
\* multiple of 10 and is unchanged otherwise, and the counters are the number
\* and the summed size of the raw events of the cycles since cur_window last
\* changed, the event of the cycle that changed it excluded; after cycles
\* that end at 20 from cur_window = 10 the counters are 0.
C7_CountedSinceChange ==
    /\ msg_window_count = since.count
    /\ msg_window_size = since.size
    /\ cycle.state = "done" =>
          /\ cur_window = IF cycle.int_time % WINDOW = 0
                          THEN cycle.int_time
                          ELSE cycle.before.cur_window
          /\ (cycle.before.cur_window = 10 /\ cycle.int_time = 20)
                => msg_window_count = 0 /\ msg_window_size = 0

\* cycles at 10, 11, 20: the third one ends with cur_window = 20 and empty
\* counters
C7_Witness ==
    /\ cycle.state = "done"
    /\ cycle.int_time = 20
    /\ cycle.before = Window(10, 1, cycle.before.msg_window_size)
    /\ cycle.before.msg_window_size > 0
    /\ window = Window(20, 0, 0)

\* C8: a cycle at a time that is no multiple of 10, or that equals cur_window,
\* leaves cur_window and adds 1 to msg_window_count and data_size to
\* msg_window_size; a cycle at a multiple of 10 other than cur_window ends
\* with cur_window at that time and both counters 0.
C8_WindowOfTest ==
    cycle.state = "done" =>
        IF cycle.int_time % WINDOW # 0 \/ cycle.int_time = cycle.before.cur_window
        THEN window = Window(cycle.before.cur_window,
                             cycle.before.msg_window_count + 1,
                             cycle.before.msg_window_size + cycle.data_size)
        ELSE window = Window(cycle.int_time, 0, 0)

\* the cycle after a reset, at the same time: it counts its event
C8_Witness ==
    /\ cycle.state = "done"
    /\ cycle.int_time = 20
    /\ cycle.before = Window(20, 0, 0)
    /\ window = Window(20, 1, cycle.data_size)

\* C9: two runs over the same events, parse results, filter and put results,
\* with different clocks and window counters, make the same put_message calls
\* and send the same feedback.
C9_WindowDoesNotGate ==
    /\ twin.put_args = Call.put_args
    /\ twin.feedback = Call.feedback
    /\ twin.flushed = flushed

\* the two runs after a cycle in which only one of them reset its window,
\* both having sent feedback
C9_Witness ==
    /\ cycle.state = "done"
    /\ twin.int_time # cycle.int_time
    /\ twin.window.cur_window # cur_window
    /\ twin.window.msg_window_count = 0
    /\ msg_window_count > 0
    /\ Call.feedback # <<>>
    /\ twin.flushed = flushed

\* the events whose payload the configured preprocessor rejects with
\* _log_and_raise
FatalEvents ==
    IF config.output_plugin = "test_decoding"
    THEN {GarbageEvent, OrdersInsertEvent, UsersNoKeyEvent}
    ELSE {UnregisteredEvent}

\* C10: when parsing the payload raises a fatal error, the error leaves the
\* controller, no put_message call is made and no feedback is sent for the
\* event.
C10_FatalParseAborts ==
    (/\ cycle.state # "none"
     /\ \E e \in FatalEvents : e.payload = cycle.payload)
    => /\ cycle.state = "raised"
       /\ Call.raised
       /\ pc = "failed"
       /\ Call.put_args = <<>>
       /\ Call.did_put = <<>>
       /\ Call.feedback = <<>>
       /\ TimesFlushed(cycle.data_start) = 0

\* a fatal parse error in the cycle after one that sent feedback
C10_Witness ==
    /\ cycle.state = "raised"
    /\ \E e \in FatalEvents : e.payload = cycle.payload
    /\ pc = "failed"
    /\ flushed # <<>>
    /\ TimesFlushed(cycle.data_start) = 0

(***************************************************************************)
(* Properties of the preprocessors and of the formatter used on their own. *)
(***************************************************************************)
\* the last call was TestDecodingPreprocessor.preprocess
LineParsed == parser.state = "parsed" /\ config.output_plugin = "test_decoding"

\* the last call was Wal2JsonPreprocessor.preprocess
JsonParsed == parser.state = "parsed" /\ config.output_plugin = "wal2json"

\* the table-change payloads of the canonical form for the registered table,
\* with the table, the operation and the key value they carry
Canonical(payload, table, operation, pkey) ==
    [payload |-> payload, table |-> table, operation |-> operation, pkey |-> pkey]

CanonicalTableChanges ==
    { Canonical(UsersInsertEvent.payload, Users, <<"INSERT">>, <<"1">>),
      Canonical(UsersDeleteEvent.payload, Users, <<"DELETE">>, <<"2">>),
      Canonical(DecoyPayload, Users, <<"UPDATE">>, <<"9">>) }

\* a BEGIN payload returns no record and stores its transaction id
BeginStoresId ==
    (LineParsed /\ parser.payload[1] = <<"BEGIN">> /\ Len(parser.payload) >= 2)
    => /\ ~parser.result.raised
       /\ ~parser.result.none
       /\ parser.result.ret = <<>>
       /\ cur_xact = PyStr(parser.payload[2])

\* a COMMIT payload returns no record and leaves the stored id alone
CommitKeepsId ==
    (LineParsed /\ parser.payload[1] = <<"COMMIT">>)
    => /\ ~parser.result.raised
       /\ ~parser.result.none
       /\ parser.result.ret = <<>>
       /\ cur_xact = parser.xact_before

\* the one record that the canonical payload c is to return
OneChangeRecord(c) ==
    /\ ~parser.result.raised
    /\ ~parser.result.none
    /\ parser.result.ret = <<Change(parser.last_begin, c.table, c.operation, c.pkey)>>
    /\ cur_xact = parser.last_begin

\* C11, as stated: for any sequence of payloads, BEGIN returns no record and
\* stores its id, COMMIT returns no record and leaves the id unchanged, and
\* every canonical table-change payload for a registered table returns
\* exactly one Change with the captured key, the payload's table and
\* operation, and the id of the most recent BEGIN (empty if none).
C11_EveryRegisteredTableChange ==
    /\ BeginStoresId
    /\ CommitKeepsId
    /\ \A c \in CanonicalTableChanges :
          (LineParsed /\ parser.payload = c.payload) => OneChangeRecord(c)

\* C11, amended: the same, for the canonical table-change payloads of a
\* registered table whose name the table filter pattern matches.
C11_FilterMatchingTableChange ==
    /\ BeginStoresId
    /\ CommitKeepsId
    /\ \A c \in CanonicalTableChanges :
          (/\ LineParsed
           /\ parser.payload = c.payload
           /\ table_re_search(config.table_pat, c.table))
          => OneChangeRecord(c)

\* after BEGIN 7 and BEGIN 8, the update of public.users returns one record
\* of transaction 8 with the value of the first column the pattern matches
C11_Witness ==
    /\ LineParsed
    /\ parser.calls = 3
    /\ parser.payload = DecoyPayload
    /\ parser.last_begin = PyStr(<<"8">>)
    /\ parser.result.ret = <<Change(PyStr(<<"8">>), Users, <<"UPDATE">>, <<"9">>)>>

\* the table-change payloads for a table without a registered key pattern
UnregisteredTableChange(payload) ==
    /\ payload[1] = <<"table">>
    /\ Len(payload) >= 2
    /\ DropLast(payload[2]) \notin DOMAIN primary_key_map

\* C12: a table-change payload for a table without a registered key pattern
\* raises the missing-table error when the table filter pattern matches the
\* table name, and returns the empty list without error when it does not;
\* the stored transaction id is unchanged either way.
C12_UnregisteredByFilter ==
    (LineParsed /\ UnregisteredTableChange(parser.payload))
    => /\ IF table_re_search(config.table_pat, DropLast(parser.payload[2]))
          THEN /\ parser.result.raised
               /\ parser.result.err = MISSING_TABLE_ERR
          ELSE /\ ~parser.result.raised
               /\ ~parser.result.none
               /\ parser.result.ret = <<>>
       /\ cur_xact = parser.xact_before

\* after BEGIN 7, the insert into audit.users under the pattern "users":
\* fatal, transaction 7 still stored
C12_Witness ==
    /\ LineParsed
    /\ config.table_pat = TablePat(<<"users">>)
    /\ parser.payload = AuditInsertPayload
    /\ parser.result.raised
    /\ parser.xact_before = PyStr(<<"7">>)
    /\ cur_xact = PyStr(<<"7">>)

\* after BEGIN 7, the insert into public.orders under the pattern "users":
\* skipped, transaction 7 still stored
C12_Skipped ==
    /\ LineParsed
    /\ config.table_pat = TablePat(<<"users">>)
    /\ parser.payload = OrdersInsertEvent.payload
    /\ ~parser.result.raised
    /\ parser.result.ret = <<>>
    /\ cur_xact = PyStr(<<"7">>)

\* the payloads that carry no row change: the empty JSON object, and an
\* object whose change list is empty
NoRowChange(payload) == payload.keys = {} \/ payload.change = <<>>

\* C13: for every payload that carries no row change, the empty object
\* included, Wal2JsonPreprocessor.preprocess raises nothing and returns the
\* empty list, a value Formatter.__call__ can iterate as it iterates the
\* result for a payload with rows.
C13_EmptyListForNoRowChange ==
    (JsonParsed /\ NoRowChange(parser.payload))
    => /\ ~parser.result.raised
       /\ ~parser.result.none
       /\ parser.result.ret = <<>>
       /\ ~Formatter_call(config.formatter, parser.result).raised

\* the entry passes the table filter as preprocess applies it, and its table
\* has a registered key
PassesFilter(entry) == table_re_search(config.table_pat, entry.table)
Registered(entry) == full_table_of(entry) \in DOMAIN primary_key_map

\* the record that preprocess derives from one entry of a payload with the
\* top-level transaction id xid
DerivedRecord(xid, entry) ==
    Wal2JsonEntry(config.table_pat, config.full_change, xid, entry).item[1]

\* the entry carries the column that the key map names for its table
HasKeyColumn(entry) ==
    \E i \in DOMAIN entry.columnnames :
        entry.columnnames[i] = primary_key_map[full_table_of(entry)].col_name

\* the call returned one record per entry of the payload, the i-th derived
\* from the i-th entry, each with the payload's top-level xid
OneRecordPerEntry ==
    /\ ~parser.result.raised
    /\ ~parser.result.none
    /\ Len(parser.result.ret) = Len(parser.payload.change)
    /\ \A i \in DOMAIN parser.payload.change :
          /\ parser.result.ret[i] = DerivedRecord(parser.payload.xid,
                                                  parser.payload.change[i])
          /\ parser.result.ret[i].xid = parser.payload.xid

\* C14, as stated: for a payload whose n entries all pass the table filter
\* and are registered, preprocess returns n records, the i-th derived from
\* the i-th entry, each carrying the payload's top-level xid.
C14_EveryRegisteredEntry ==
    (/\ JsonParsed
     /\ parser.payload.keys # {}
     /\ \A i \in DOMAIN parser.payload.change :
           PassesFilter(parser.payload.change[i]) /\ Registered(parser.payload.change[i]))
    => OneRecordPerEntry

\* C14, amended: the same, for the payloads whose entries, in primary-key
\* mode, also carry the registered key column among their column names.
C14_OrderPreserved ==
    (/\ JsonParsed
     /\ parser.payload.keys # {}
     /\ \A i \in DOMAIN parser.payload.change :
           /\ PassesFilter(parser.payload.change[i])
           /\ Registered(parser.payload.change[i])
           /\ config.full_change \/ HasKeyColumn(parser.payload.change[i]))
    => OneRecordPerEntry

\* three rows of public.users in transaction 4: insert of 2, update of 1,
\* delete of 2, returned in that order
C14_Witness ==
    /\ JsonParsed
    /\ ~config.full_change
    /\ parser.payload = ThreeRowsPayload
    /\ parser.result.ret =
          << Change(PyInt(<<"4">>), Users, <<"insert">>, <<"2">>),
             Change(PyInt(<<"4">>), Users, <<"update">>, <<"1">>),
             Change(PyInt(<<"4">>), Users, <<"delete">>, <<"2">>) >>

\* the payload has exactly one entry, which passes the table filter and whose
\* table is absent from the key map
OneUnregisteredEntry(payload) ==
    /\ payload.keys # {}
    /\ Len(payload.change) = 1
    /\ PassesFilter(payload.change[1])
    /\ ~Registered(payload.change[1])

\* C15: a filter-matching entry whose table is absent from the key map gives,
\* in full-capture mode, a FullChange that wraps the entry unchanged, with no
\* key lookup and no error; in primary-key mode it raises the missing-table
\* error.
C15_UnregisteredByMode ==
    /\ (JsonParsed /\ OneUnregisteredEntry(parser.payload))
       => IF config.full_change
          THEN /\ ~parser.result.raised
               /\ ~parser.result.none
               /\ parser.result.ret =
                     <<FullChange(parser.payload.xid, parser.payload.change[1])>>
          ELSE /\ parser.result.raised
               /\ parser.result.err = MISSING_TABLE_ERR
               /\ parser.result.ret = <<>>
    /\ (JsonParsed /\ parser.payload.keys # {} /\ config.full_change)
       => /\ ~parser.result.raised
          /\ \A i \in DOMAIN parser.result.ret :
                \E j \in DOMAIN parser.payload.change :
                    parser.result.ret[i] =
                        FullChange(parser.payload.xid, parser.payload.change[j])

\* full-capture mode: the insert into audit.users comes back wrapped
C15_Witness ==
    /\ JsonParsed
    /\ config.full_change
    /\ parser.payload = AuditPayload
    /\ parser.result.ret =
          <<FullChange(PyInt(<<"5">>), AuditRow(<<"insert">>, <<"3">>))>>

\* primary-key mode: the same payload is fatal
C15_Fatal ==
    /\ JsonParsed
    /\ ~config.full_change
    /\ parser.payload = AuditPayload
    /\ parser.result.raised
    /\ parser.result.err = MISSING_TABLE_ERR

\* text.split(','): the fields between the commas
RECURSIVE SplitComma(_, _, _)
SplitComma(text, field, fields) ==
    IF text = <<>>
    THEN Append(fields, field)
    ELSE IF Head(text) = ","
    THEN SplitComma(Tail(text), <<>>, Append(fields, field))
    ELSE SplitComma(Tail(text), Append(field, Head(text)), fields)

split(text) == SplitComma(text, <<>>, <<>>)

\* the fields of fmt_msg after the two leading ones, as the tuple a reader of
\* the text gets: every field is a string
Decoded(fmt_msg) ==
    LET fields == split(fmt_msg) IN
    Change(PyStr(fields[3]), fields[4], fields[5], fields[6])

NoComma(text) == \A i \in DOMAIN text : text[i] # ","

CommaFree(change) ==
    /\ NoComma(str(change.xid))
    /\ NoComma(change.table)
    /\ NoComma(change.operation)
    /\ NoComma(change.pkey)

\* the last call encoded a record without commas
EncodedCommaFree == parser.state = "encoded" /\ CommaFree(parser.record)

\* the text has six comma-separated fields, led by the version and the type
SixFields(fmt_msg) ==
    /\ Len(split(fmt_msg)) = 6
    /\ split(fmt_msg)[1] = VersionText
    /\ split(fmt_msg)[2] = TYPE

\* C16, as stated: for every Change without commas the text is
\* '<version>,<type>,<xid>,<table>,<operation>,<pkey>', splitting it on commas
\* and dropping the two leading fields gives back exactly the original
\* (xid, table, operation, pkey), and the Message carries the original record.
C16_RoundTripExact ==
    EncodedCommaFree
    => /\ Len(parser.message) = 1
       /\ SixFields(parser.message[1].fmt_msg)
       /\ Decoded(parser.message[1].fmt_msg) = parser.record
       /\ parser.message[1].change = parser.record

\* C16, amended: the split gives back the text of each field, which is the
\* original tuple exactly when the record's xid is a string; an integer xid
\* comes back as its decimal text.
C16_RoundTripText ==
    EncodedCommaFree
    => /\ Len(parser.message) = 1
       /\ SixFields(parser.message[1].fmt_msg)
       /\ Decoded(parser.message[1].fmt_msg) =
             Change(PyStr(str(parser.record.xid)), parser.record.table,
                    parser.record.operation, parser.record.pkey)
       /\ (Decoded(parser.message[1].fmt_msg) = parser.record)
             <=> (parser.record.xid.t = "str")
       /\ parser.message[1].change = parser.record

\* the record ('7', public.users, delete, a-b) encoded as
\* 0,CDC,7,public.users,delete,a-b
C16_Witness ==
    /\ parser.state = "encoded"
    /\ parser.record = Change(PyStr(<<"7">>), Users, <<"delete">>, <<"a", "-", "b">>)
    /\ parser.message[1].fmt_msg =
          <<"0", ",", "CDC", ",", "7", ",", "public", ".", "users", ",",
            "delete", ",", "a", "-", "b">>
    /\ Decoded(parser.message[1].fmt_msg) = parser.record

\* the entries of the payload whose schema.table name the filter pattern
\* matches
MatchesQualified(entry) == table_re_search(config.table_pat, full_table_of(entry))
Selected(payload) == SelectSeq(payload.change, MatchesQualified)

\* the record was made from the entry
RecordOf(record, entry) ==
    IF config.full_change
    THEN record = FullChange(parser.payload.xid, entry)
    ELSE /\ ~IsFullChange(record)
         /\ record.table = full_table_of(entry)
         /\ record.operation = lower(entry.kind)

\* C17: the table filter is applied to the schema.table name: the entries
\* whose schema.table name the pattern does not match are skipped without
\* record or error, and exactly the others give records, so a pattern naming
\* 'public.users' selects the entries of public.users and no others.
C17_FilterOnQualifiedName ==
    (JsonParsed /\ parser.payload.keys # {})
    => /\ (Selected(parser.payload) = <<>>)
             => (~parser.result.raised /\ parser.result.ret = <<>>)
       /\ ~parser.result.raised
             => /\ Len(parser.result.ret) = Len(Selected(parser.payload))
                /\ \A i \in DOMAIN parser.result.ret :
                      RecordOf(parser.result.ret[i], Selected(parser.payload)[i])

\* the payloads whose leading token is none of BEGIN, COMMIT, table
UnknownLeadingToken(payload) ==
    payload[1] \notin {<<"BEGIN">>, <<"COMMIT">>, <<"table">>}

\* the table-change payloads for the registered table whose column dump has
\* no id[int4] column
MissingKeyPayloads == {UsersNoKeyEvent.payload, WrongTypePayload}

\* C18: the line-oriented parser raises, returns no record and leaves the
\* stored transaction id unchanged for every payload with an unknown leading
\* token, and for every table-change payload of a registered, filter-matching
\* table whose column dump lacks the registered key column pattern; it never
\* returns the empty list for them.
C18_FatalLinePayloads ==
    /\ (LineParsed /\ UnknownLeadingToken(parser.payload))
       => /\ parser.result.raised
          /\ parser.result.err = "Unknown change"
          /\ parser.result.ret = <<>>
          /\ cur_xact = parser.xact_before
    /\ (/\ LineParsed
        /\ parser.payload \in MissingKeyPayloads
        /\ table_re_search(config.table_pat, DropLast(parser.payload[2])))
       => /\ parser.result.raised
          /\ parser.result.err = MISSING_PK_ERR
          /\ parser.result.ret = <<>>
          /\ cur_xact = parser.xact_before

\* after BEGIN 7, the update of public.users with id[text] is fatal and
\* transaction 7 stays stored
C18_Witness ==
    /\ LineParsed
    /\ parser.payload = WrongTypePayload
    /\ parser.result.raised
    /\ parser.result.err = MISSING_PK_ERR
    /\ parser.xact_before = PyStr(<<"7">>)
    /\ cur_xact = PyStr(<<"7">>)

\* a payload with an unknown leading token is fatal
C18_Unknown ==
    /\ LineParsed
    /\ parser.payload = GarbageEvent.payload
    /\ parser.result.raised
    /\ cur_xact = PyStr(<<"8">>)

\* entry k is the first to raise, and raises for its unregistered table
FirstFailure(payload, k) ==
    /\ k \in DOMAIN payload.change
    /\ PassesFilter(payload.change[k])
    /\ ~Registered(payload.change[k])
    /\ \A j \in 1..(k - 1) :
          \/ ~PassesFilter(payload.change[j])
          \/ Registered(payload.change[j]) /\ HasKeyColumn(payload.change[j])

\* C19: in primary-key mode, when the k-th entry of the change list raises
\* for its unregistered table, the call returns none of the records of the
\* entries before it, and cur_xact already holds the failing payload's xid.
C19_NoRecordsButNewXid ==
    (/\ JsonParsed
     /\ ~config.full_change
     /\ parser.payload.keys # {}
     /\ \E k \in DOMAIN parser.payload.change : FirstFailure(parser.payload, k))
    => /\ parser.result.raised
       /\ parser.result.err = MISSING_TABLE_ERR
       /\ ~parser.result.none
       /\ parser.result.ret = <<>>
       /\ cur_xact = parser.payload.xid

\* after a payload of transaction 7, the payload of transaction 9 fails at
\* its second entry: no record of the first, and cur_xact is 9
C19_Witness ==
    /\ JsonParsed
    /\ ~config.full_change
    /\ parser.payload = UnregisteredEvent.payload
    /\ FirstFailure(parser.payload, 2)
    /\ parser.xact_before = PyInt(<<"7">>)
    /\ parser.result.raised
    /\ parser.result.ret = <<>>
    /\ cur_xact = PyInt(<<"9">>)

====
